---------------------------- MODULE Spec2Model ----------------------------
(***************************************************************************)
(* A model of letstalk: the two recorders of listen.py (AudioRecorder,     *)
(* the silence-terminated capture loop, and InteractiveRecorder, the       *)
(* pause/resume recorder driven by a key-listener thread) and the text     *)
(* splitting and audio assembly of Speaker.speak in talk.py.               *)
(*                                                                         *)
(* The specifications share the variables:                                 *)
(*   SpecAuto   AudioRecorder.record_until_silence                         *)
(*   SpecInter  main's interactive branch around InteractiveRecorder       *)
(*   SpecChunk  the splitting loop of Speaker.speak                        *)
(*   SpecSpeak  talk.py main around Speaker.speak                          *)
(* Each leaves the variables of the other components at their idle values. *)
(***************************************************************************)
EXTENDS Integers, Sequences, FiniteSets, TLC

VARIABLES
    \* ---- AudioRecorder.record_until_silence (listen.py 50-102)
    input,          \* what the device delivers: block i is its peak amplitude
    shape,          \* the input is [n silent][m speech][k silent]
    max_chunks,     \* None = float("inf"), else <<number of blocks>>
    frames,         \* list of retained blocks
    silent_chunks,
    has_speech,
    total_chunks,
    stream,         \* "none", "open", "closed"
    apc,            \* position of record_until_silence
    why,            \* which arm of the stop test ended the loop
    \* ---- InteractiveRecorder and main's interactive branch (listen.py)
    state,          \* self.state, read and written under self.lock
    term,           \* mode of the terminal: "cooked" (as saved) or "cbreak"
    lpc,            \* position of the key-listener thread
    ch,             \* the listener's ch
    lcurrent,       \* the listener's current
    keys,           \* every character the listener has read, in order
    trace,          \* self.state at construction and after each handled key
    mpc,            \* position of the main thread (main and record)
    polled,         \* the state that ended the wait of line 178
    istream,        \* "none", "open", "closed"
    blocks_read,    \* blocks pulled from the device so far; block i is i
    current,        \* record's current
    iframes,        \* record's frames
    result,         \* None until record returns, then <<the returned list>>
    restores,       \* calls of tcsetattr with the saved settings
    seen,           \* seen[i]: the state record read right after block i
    iwhy,           \* how record's loop ended: "stopped" or "error"
    \* ---- talk.py: main and Speaker.speak
    max_chars,      \* the limit MAX_CHARS the run is made with
    orig,           \* the text main hands to speak
    text,           \* speak's text: what is still to be split
    chunks,         \* speak's chunks
    gaps,           \* gaps[i]: what lstrip removed after chunks[i]
    split_points,   \* the split_point of each pass that split
    spc,            \* position of main and speak
    calls,          \* the input of every synthesis call, in order
    audio_chunks,   \* speak's audio_chunks
    audio_data,     \* None until speak returns, then <<the bytes>>
    output_file     \* None until main writes it, then <<its content>>

autoVars == <<input, shape, max_chunks, frames, silent_chunks, has_speech,
              total_chunks, stream, apc, why>>

interVars == <<state, term, lpc, ch, lcurrent, keys, trace, mpc, polled,
               istream, blocks_read, current, iframes, result, restores,
               seen, iwhy>>

speakVars == <<max_chars, orig, text, chunks, gaps, split_points, spc, calls,
               audio_chunks, audio_data, output_file>>

vars == <<autoVars, interVars, speakVars>>
notAuto == <<interVars, speakVars>>
notInter == <<autoVars, speakVars>>
notSpeak == <<autoVars, interVars>>

\* Python's None and a present value.
None == <<>>
Some(x) == <<x>>

-----------------------------------------------------------------------------
(* listen.py: audio recording parameters                                   *)

CHUNK == 1024
RATE == 16000
SILENCE_THRESHOLD == 800
SILENCE_DURATION == 2
DEFAULT_DURATION == 60
\* the largest peak of a block of signed 16-bit samples, abs(-32768)
MAX_AMPLITUDE == 32768

\* Bounds of the model.
MaxLead == 2        \* silent blocks before the speech run
MaxSpeech == 2      \* blocks of the speech run
MaxTail == 2        \* silent blocks after the run, beyond the stop threshold
MaxDuration16 == 5  \* largest --duration tried, in sixteenths of a second

\* int(SILENCE_DURATION * RATE / CHUNK), the threshold of line 89
SilenceDurationBlocks == (SILENCE_DURATION * RATE) \div CHUNK

\* line 76: is_silent = amplitude < SILENCE_THRESHOLD
IsSilent(amplitude) == amplitude < SILENCE_THRESHOLD

\* line 66: max_chunks, for a max_duration given in sixteenths of a second
\* (k/16 is exact in binary floating point, and so are k/16*RATE and the
\* division by CHUNK, so int() is the floor of the exact quotient)
MaxChunksOf(max_duration) ==
    IF max_duration = None THEN None
    ELSE Some((max_duration[1] * RATE) \div (16 * CHUNK))

\* CapReached with the test made one block late (> for >=)
CapReachedLate(total, cap) == cap # None /\ total > cap[1]

\* line 90: total_chunks >= max_chunks (never true of float("inf"))
CapReached(total, cap) == cap # None /\ total >= cap[1]

\* SilenceStop with the threshold count itself stopping (>= for >)
SilenceStopAtThreshold(speech, silent) ==
    speech /\ silent >= SilenceDurationBlocks

\* line 89: has_speech and silent_chunks > int(SILENCE_DURATION * RATE / CHUNK)
SilenceStop(speech, silent) == speech /\ silent > SilenceDurationBlocks

\* lines 80-84
NextSilentChunks(is_silent, silent) == IF is_silent THEN silent + 1 ELSE 0
NextHasSpeech(is_silent, speech) == IF is_silent THEN speech ELSE TRUE

\* AppendFrame keeping a block only once something was kept or it is loud
AppendFrameFromSpeech(fs, data) ==
    IF fs = <<>> /\ IsSilent(data) THEN fs ELSE Append(fs, data)

\* line 71: frames.append(data), for every block read
AppendFrame(fs, data) == Append(fs, data)

\* The block sequence [n silent][m speech][k silent].
BlockSequence(n, m, k, quiet, loud) ==
    [i \in 1..(n + m + k) |-> IF i > n /\ i <= n + m THEN loud ELSE quiet]

\* The values of --duration tried, in sixteenths of a second: none, the
\* default of main, the shortest ones, and the ones just past the silence
\* duration (so that a cap above the silence threshold is met too).
Durations ==
    {None, Some(DEFAULT_DURATION * 16)}
        \cup {Some(d) : d \in 0..MaxDuration16}
        \cup {Some(SILENCE_DURATION * 16 + d) : d \in 0..MaxDuration16}

\* lines 51-66: self.p.open(...) returns a stream
OpenStream ==
    /\ apc = "open"
    /\ stream' = "open"
    /\ apc' = "loop"
    /\ UNCHANGED <<input, shape, max_chunks, frames, silent_chunks, has_speech,
                   total_chunks, why>>
    /\ UNCHANGED notAuto

\* lines 51-58: self.p.open(...) raises; nothing in record_until_silence
\* catches it
OpenStreamFails ==
    /\ apc = "open"
    /\ apc' = "raised"
    /\ UNCHANGED <<input, shape, max_chunks, frames, silent_chunks, has_speech,
                   total_chunks, stream, why>>
    /\ UNCHANGED notAuto

\* lines 69-91: one pass of the loop in which stream.read returns a block
ReadBlock ==
    /\ apc = "loop"
    /\ total_chunks < Len(input)
    /\ LET data == input[total_chunks + 1]
           is_silent == IsSilent(data)
           silent == NextSilentChunks(is_silent, silent_chunks)
           speech == NextHasSpeech(is_silent, has_speech)
           total == total_chunks + 1
           bySilence == SilenceStop(speech, silent)
           byCap == CapReached(total, max_chunks)
       IN /\ frames' = AppendFrame(frames, data)
          /\ total_chunks' = total
          /\ silent_chunks' = silent
          /\ has_speech' = speech
          /\ apc' = IF bySilence \/ byCap THEN "stopped" ELSE "loop"
          /\ why' = IF bySilence /\ byCap THEN "both"
                    ELSE IF bySilence THEN "silence"
                    ELSE IF byCap THEN "cap" ELSE "none"
    /\ UNCHANGED <<input, shape, max_chunks, stream>>
    /\ UNCHANGED notAuto

\* lines 93-95: stream.read raises; the error is printed and the loop ends
ReadFails ==
    /\ apc = "loop"
    /\ apc' = "stopped"
    /\ why' = "error"
    /\ UNCHANGED <<input, shape, max_chunks, frames, silent_chunks, has_speech,
                   total_chunks, stream>>
    /\ UNCHANGED notAuto

\* lines 97-102: stop_stream, close, return frames
CloseAndReturn ==
    /\ apc = "stopped"
    /\ stream' = "closed"
    /\ apc' = "returned"
    /\ UNCHANGED <<input, shape, max_chunks, frames, silent_chunks, has_speech,
                   total_chunks, why>>
    /\ UNCHANGED notAuto

NextAuto ==
    \/ OpenStream
    \/ OpenStreamFails
    \/ ReadBlock
    \/ ReadFails
    \/ CloseAndReturn

-----------------------------------------------------------------------------
(* listen.py: InteractiveRecorder, and the interactive branch of main      *)

READY == "READY"
RECORDING == "RECORDING"
PAUSED == "PAUSED"
STOPPED == "STOPPED"

MaxKeys == 4        \* characters the listener reads in a run
MaxBlocks == 3      \* blocks the device delivers in a run

\* What sys.stdin.read(1) can return: Enter, Return, q and another key.
Keys == {"\n", "\r", "q", "x"}

\* KeyTransition without the resume arm: Enter in PAUSED does nothing
KeyTransitionNoResume(cur, c) ==
    IF c = "\n" \/ c = "\r"
    THEN IF cur = READY THEN Some(RECORDING)
         ELSE IF cur = RECORDING THEN Some(PAUSED)
         ELSE None
    ELSE IF c = "q" THEN Some(STOPPED)
    ELSE None

\* KeyTransition with Enter in PAUSED going back to READY
KeyTransitionBackToReady(cur, c) ==
    IF c = "\n" \/ c = "\r"
    THEN IF cur = READY THEN Some(RECORDING)
         ELSE IF cur = RECORDING THEN Some(PAUSED)
         ELSE IF cur = PAUSED THEN Some(READY)
         ELSE None
    ELSE IF c = "q" THEN Some(STOPPED)
    ELSE None

\* lines 154-162: the state the listener sets for character c read in state
\* cur, None when it calls _set_state not at all
KeyTransition(cur, c) ==
    IF c = "\n" \/ c = "\r"
    THEN IF cur = READY THEN Some(RECORDING)
         ELSE IF cur = RECORDING THEN Some(PAUSED)
         ELSE IF cur = PAUSED THEN Some(RECORDING)
         ELSE None
    ELSE IF c = "q" THEN Some(STOPPED)
    ELSE None

\* ListenerDone never ending the loop
ListenerDoneNever(s) == FALSE

\* line 164: the listener's loop ends
ListenerDone(s) == s = STOPPED

\* LeftReady with no wait at all
LeftReadyAtOnce(s) == TRUE

\* line 178: the wait of record ends
LeftReady(s) == s # READY

\* IsCancelled testing the wrong state
IsCancelledWhenPaused(s) == s = PAUSED

\* line 181: record gives up before opening the device
IsCancelled(s) == s = STOPPED

\* LoopEnds testing the wrong state
LoopEndsWhenPaused(cur) == cur = PAUSED

\* line 202 and line 208: what record does with the block just read
LoopEnds(cur) == cur = STOPPED

\* Retains keeping the block in every state but READY
RetainsAlsoPaused(cur) == cur # READY

Retains(cur) == cur = RECORDING

\* ---- the key-listener thread, _listen_for_keys

\* line 149: tty.setcbreak succeeds
SetCbreak ==
    /\ lpc = "setcbreak"
    /\ term' = "cbreak"
    /\ lpc' = "read"
    /\ UNCHANGED <<state, ch, lcurrent, keys, trace, mpc, polled, istream,
                   blocks_read, current, iframes, result, restores>>
    /\ UNCHANGED <<seen, iwhy>>
    /\ UNCHANGED notInter

\* lines 149, 166-167: tty.setcbreak raises; the handler sets STOPPED
SetCbreakFails ==
    /\ lpc = "setcbreak"
    /\ state' = STOPPED
    /\ lpc' = "exit"
    /\ UNCHANGED <<term, ch, lcurrent, keys, trace, mpc, polled, istream,
                   blocks_read, current, iframes, result, restores>>
    /\ UNCHANGED <<seen, iwhy>>
    /\ UNCHANGED notInter

\* line 151: sys.stdin.read(1) returns a character
ReadChar ==
    /\ lpc = "read"
    /\ Len(keys) < MaxKeys
    /\ \E c \in Keys :
        /\ ch' = c
        /\ keys' = Append(keys, c)
    /\ lpc' = "get"
    /\ UNCHANGED <<state, term, lcurrent, trace, mpc, polled, istream,
                   blocks_read, current, iframes, result, restores>>
    /\ UNCHANGED <<seen, iwhy>>
    /\ UNCHANGED notInter

\* lines 151, 166-167: sys.stdin.read(1) raises; the handler sets STOPPED
ReadCharFails ==
    /\ lpc = "read"
    /\ state' = STOPPED
    /\ lpc' = "exit"
    /\ UNCHANGED <<term, ch, lcurrent, keys, trace, mpc, polled, istream,
                   blocks_read, current, iframes, result, restores>>
    /\ UNCHANGED <<seen, iwhy>>
    /\ UNCHANGED notInter

\* line 152: current = self._get_state()
ListenerGetState ==
    /\ lpc = "get"
    /\ lcurrent' = state
    /\ lpc' = "apply"
    /\ UNCHANGED <<state, term, ch, keys, trace, mpc, polled, istream,
                   blocks_read, current, iframes, result, restores>>
    /\ UNCHANGED <<seen, iwhy>>
    /\ UNCHANGED notInter

\* lines 154-162: the _set_state call chosen by ch and current, if any
ListenerApply ==
    /\ lpc = "apply"
    /\ LET t == KeyTransition(lcurrent, ch)
       IN state' = IF t = None THEN state ELSE t[1]
    /\ trace' = Append(trace, state')
    /\ lpc' = "check"
    /\ UNCHANGED <<term, ch, lcurrent, keys, mpc, polled, istream,
                   blocks_read, current, iframes, result, restores>>
    /\ UNCHANGED <<seen, iwhy>>
    /\ UNCHANGED notInter

\* lines 164-165: leave the loop once the state is STOPPED
ListenerCheck ==
    /\ lpc = "check"
    /\ lpc' = IF ListenerDone(state) THEN "exit" ELSE "read"
    /\ UNCHANGED <<state, term, ch, lcurrent, keys, trace, mpc, polled, istream,
                   blocks_read, current, iframes, result, restores>>
    /\ UNCHANGED <<seen, iwhy>>
    /\ UNCHANGED notInter

\* ---- the main thread: record (lines 169-226) inside main's with block

\* lines 174-175: the listener thread is started
StartListener ==
    /\ mpc = "start"
    /\ lpc' = "setcbreak"
    /\ mpc' = "wait"
    /\ UNCHANGED <<state, term, ch, lcurrent, keys, trace, polled, istream,
                   blocks_read, current, iframes, result, restores>>
    /\ UNCHANGED <<seen, iwhy>>
    /\ UNCHANGED notInter

\* lines 178-179: the busy wait ends with a read of a state that is not
\* READY (a read of READY changes nothing)
PollReady ==
    /\ mpc = "wait"
    /\ LeftReady(state)
    /\ polled' = state
    /\ mpc' = "check"
    /\ UNCHANGED <<state, term, lpc, ch, lcurrent, keys, trace, istream,
                   blocks_read, current, iframes, result, restores>>
    /\ UNCHANGED <<seen, iwhy>>
    /\ UNCHANGED notInter

\* lines 181-183: a second read of the state; STOPPED returns []
CheckCancelled ==
    /\ mpc = "check"
    /\ IF IsCancelled(state)
       THEN /\ result' = Some(<<>>)
            /\ mpc' = "returned"
       ELSE /\ result' = result
            /\ mpc' = "open"
    /\ UNCHANGED <<state, term, lpc, ch, lcurrent, keys, trace, polled,
                   istream, blocks_read, current, iframes, restores>>
    /\ UNCHANGED <<seen, iwhy>>
    /\ UNCHANGED notInter

\* lines 186-195: self.p.open(...) returns a stream
OpenInput ==
    /\ mpc = "open"
    /\ istream' = "open"
    /\ mpc' = "read"
    /\ UNCHANGED <<state, term, lpc, ch, lcurrent, keys, trace, polled,
                   blocks_read, current, iframes, result, restores>>
    /\ UNCHANGED <<seen, iwhy>>
    /\ UNCHANGED notInter

\* lines 186-193: self.p.open(...) raises; record catches nothing here, the
\* exception leaves record and main's with block
OpenInputFails ==
    /\ mpc = "open"
    /\ mpc' = "exit"
    /\ UNCHANGED <<state, term, lpc, ch, lcurrent, keys, trace, polled,
                   istream, blocks_read, current, iframes, result, restores>>
    /\ UNCHANGED <<seen, iwhy>>
    /\ UNCHANGED notInter

\* line 199: stream.read returns the next block
ReadInput ==
    /\ mpc = "read"
    /\ blocks_read < MaxBlocks
    /\ blocks_read' = blocks_read + 1
    /\ mpc' = "get"
    /\ UNCHANGED <<state, term, lpc, ch, lcurrent, keys, trace, polled,
                   istream, current, iframes, result, restores>>
    /\ UNCHANGED <<seen, iwhy>>
    /\ UNCHANGED notInter

\* ReadInputFails with the read tried again instead of the loop ending
ReadInputFailsRetries ==
    /\ mpc = "read"
    /\ mpc' = "read"
    /\ iwhy' = "error"
    /\ UNCHANGED <<state, term, lpc, ch, lcurrent, keys, trace, polled,
                   istream, blocks_read, current, iframes, result, restores,
                   seen>>
    /\ UNCHANGED notInter

\* lines 199, 217-219: stream.read raises; the loop ends
ReadInputFails ==
    /\ mpc = "read"
    /\ mpc' = "close"
    /\ iwhy' = "error"
    /\ UNCHANGED <<state, term, lpc, ch, lcurrent, keys, trace, polled,
                   istream, blocks_read, current, iframes, result, restores,
                   seen>>
    /\ UNCHANGED notInter

\* lines 200-215: the state is read once for the block; STOPPED ends the
\* loop, RECORDING appends the block, PAUSED drops it
HandleBlock ==
    /\ mpc = "get"
    /\ current' = state
    /\ mpc' = IF LoopEnds(current') THEN "close" ELSE "read"
    /\ iframes' = IF ~LoopEnds(current') /\ Retains(current')
                  THEN Append(iframes, blocks_read)
                  ELSE iframes
    /\ seen' = Append(seen, current')
    /\ iwhy' = IF LoopEnds(current') THEN "stopped" ELSE iwhy
    /\ UNCHANGED <<state, term, lpc, ch, lcurrent, keys, trace, polled,
                   istream, blocks_read, result, restores>>
    /\ UNCHANGED notInter

\* lines 221-226: stop_stream, close, return frames
CloseInput ==
    /\ mpc = "close"
    /\ istream' = "closed"
    /\ result' = Some(iframes)
    /\ mpc' = "returned"
    /\ UNCHANGED <<state, term, lpc, ch, lcurrent, keys, trace, polled,
                   blocks_read, current, iframes, restores>>
    /\ UNCHANGED <<seen, iwhy>>
    /\ UNCHANGED notInter

\* lines 334-345: main after record returned: nothing for an empty list,
\* else save and transcribe; either way the with block is left
MainAfterRecord ==
    /\ mpc = "returned"
    /\ mpc' = "exit"
    /\ UNCHANGED <<state, term, lpc, ch, lcurrent, keys, trace, polled,
                   istream, blocks_read, current, iframes, result, restores>>
    /\ UNCHANGED <<seen, iwhy>>
    /\ UNCHANGED notInter

\* lines 236-245: __exit__ calls cleanup, which puts back the settings
\* saved by __init__ (line 136)
Cleanup ==
    /\ mpc = "exit"
    /\ term' = "cooked"
    /\ restores' = restores + 1
    /\ mpc' = "ended"
    /\ UNCHANGED <<state, lpc, ch, lcurrent, keys, trace, polled, istream,
                   blocks_read, current, iframes, result>>
    /\ UNCHANGED <<seen, iwhy>>
    /\ UNCHANGED notInter

NextInter ==
    \/ SetCbreak
    \/ SetCbreakFails
    \/ ReadChar
    \/ ReadCharFails
    \/ ListenerGetState
    \/ ListenerApply
    \/ ListenerCheck
    \/ StartListener
    \/ PollReady
    \/ CheckCancelled
    \/ OpenInput
    \/ OpenInputFails
    \/ ReadInput
    \/ ReadInputFails
    \/ HandleBlock
    \/ CloseInput
    \/ MainAfterRecord
    \/ Cleanup

-----------------------------------------------------------------------------
(* talk.py: main and Speaker.speak                                         *)
(*                                                                         *)
(* A string is a sequence of one-character strings, an index of Python is  *)
(* one less than the index of the sequence.  MAX_CHARS is 4096 in talk.py  *)
(* (line 25); the loop of speak reads it only as the limit, and the model  *)
(* runs the loop for every limit in 1..MaxLimit (max_chars).               *)

MaxTextLen == 5     \* longest text read by main
MaxLimit == 3       \* largest limit tried for MAX_CHARS

\* Characters of the texts: a letter, the five split characters of speak,
\* and a tab (whitespace that is no split character).
Alphabet == {"x", ".", "!", "?", "\n", " ", "\t"}
\* The texts of the runs that go on to synthesis.
SpeakAlphabet == {"x", ".", " "}
\* What str.strip and str.lstrip remove.
Whitespace == {" ", "\n", "\t"}

\* The contents a synthesis response can carry.
Fragments == {<<"A", "A">>, <<"B">>}

Texts(alphabet, n) == UNION {[1..k -> alphabet] : k \in 0..n}

Min(a, b) == IF a < b THEN a ELSE b

\* LStrip dropping one whitespace character at most
LStripOne(t) ==
    IF t # <<>> /\ t[1] \in Whitespace THEN Tail(t) ELSE t

\* str.lstrip(): drop the leading whitespace
RECURSIVE LStrip(_)
LStrip(t) ==
    IF t # <<>> /\ t[1] \in Whitespace THEN LStrip(Tail(t)) ELSE t

\* str.rstrip(): drop the trailing whitespace
RECURSIVE RStrip(_)
RStrip(t) ==
    IF t # <<>> /\ t[Len(t)] \in Whitespace
    THEN RStrip(SubSeq(t, 1, Len(t) - 1))
    ELSE t

\* str.strip(), lines 134, 137 and 143
Strip(t) == LStrip(RStrip(t))

\* text[:MAX_CHARS], the window of lines 40-48
Window(t, limit) == SubSeq(t, 1, Min(limit, Len(t)))

\* str.rfind(c): the highest Python index of c in w, -1 when there is none
RECURSIVE RFindFrom(_, _, _)
RFindFrom(w, c, i) ==
    IF i = 0 THEN -1
    ELSE IF w[i] = c THEN i - 1
    ELSE RFindFrom(w, c, i - 1)

RFind(w, c) == RFindFrom(w, c, Len(w))

\* ForcedSplit one character late
ForcedSplitAtLimit(limit) == limit

\* line 50: no natural break, force the split
ForcedSplit(limit) == limit - 1

\* SplitPoint taking the last split character of any kind
SplitPointLastOfAny(t, limit) ==
    LET w == Window(t, limit)
        found == {RFind(w, c) : c \in {".", "!", "?", "\n", " "}} \ {-1}
    IN IF found = {} THEN ForcedSplit(limit)
       ELSE CHOOSE p \in found : \A q \in found : q <= p

\* lines 40-50: the split_point of a text longer than the limit
SplitPoint(t, limit) ==
    LET w == Window(t, limit)
        p1 == RFind(w, ".")
        p2 == IF p1 = -1 THEN RFind(w, "!") ELSE p1
        p3 == IF p2 = -1 THEN RFind(w, "?") ELSE p2
        p4 == IF p3 = -1 THEN RFind(w, "\n") ELSE p3
        p5 == IF p4 = -1 THEN RFind(w, " ") ELSE p4
    IN IF p5 = -1 THEN ForcedSplit(limit) ELSE p5

\* ChunkUpTo leaving the split character out: text[:split_point]
ChunkBefore(t, split_point) == SubSeq(t, 1, split_point)

\* line 54: text[:split_point + 1]
ChunkUpTo(t, split_point) == SubSeq(t, 1, split_point + 1)

\* RestAfter keeping the split character: text[split_point:]
RestFrom(t, split_point) == SubSeq(t, split_point + 1, Len(t))

\* line 55: text[split_point + 1:], before lstrip
RestAfter(t, split_point) == SubSeq(t, split_point + 2, Len(t))

\* line 35: the text fits, it is the last chunk
Fits(t, limit) == Len(t) <= limit

\* lines 35-37: the remaining text is appended whole and the loop ends
FinalChunk ==
    /\ spc = "split"
    /\ text # <<>>
    /\ Fits(text, max_chars)
    /\ chunks' = Append(chunks, text)
    /\ spc' = "synth"
    /\ UNCHANGED <<max_chars, orig, text, gaps, split_points, calls,
                   audio_chunks, audio_data, output_file>>
    /\ UNCHANGED notSpeak

\* lines 39-55 and the loop test of line 34: one pass that splits
SplitChunk ==
    /\ spc = "split"
    /\ text # <<>>
    /\ ~Fits(text, max_chars)
    /\ LET split_point == SplitPoint(text, max_chars)
           rest == RestAfter(text, split_point)
           stripped == LStrip(rest)
       IN /\ chunks' = Append(chunks, ChunkUpTo(text, split_point))
          /\ text' = stripped
          /\ gaps' = Append(gaps, SubSeq(rest, 1, Len(rest) - Len(stripped)))
          /\ split_points' =
                Append(split_points, [text |-> text, split_point |-> split_point])
          /\ spc' = IF stripped = <<>> THEN "synth" ELSE "split"
    /\ UNCHANGED <<max_chars, orig, calls, audio_chunks, audio_data,
                   output_file>>
    /\ UNCHANGED notSpeak

\* line 60: the chunk the loop hands to the service next
ChunkToSynthesize(cs, done) == cs[Len(done) + 1]

\* OnSynthesisError with the failure swallowed and the loop going on
OnSynthesisErrorGoOn == "synth"

\* lines 63-67: nothing in speak catches a failed call, the exception
\* leaves speak
OnSynthesisError == "raised"

\* Join losing the last fragment
RECURSIVE JoinButLast(_)
JoinButLast(fragments) ==
    IF Len(fragments) <= 1 THEN <<>>
    ELSE Head(fragments) \o JoinButLast(Tail(fragments))

\* line 71: b"".join(audio_chunks)
RECURSIVE Join(_)
Join(fragments) ==
    IF fragments = <<>> THEN <<>>
    ELSE Head(fragments) \o Join(Tail(fragments))

\* lines 60-68: the call for the next chunk returns a response
Synthesize ==
    /\ spc = "synth"
    /\ Len(audio_chunks) < Len(chunks)
    /\ \E content \in Fragments :
        /\ calls' = Append(calls, [input |-> ChunkToSynthesize(chunks, audio_chunks),
                                   ok |-> TRUE, content |-> content])
        /\ audio_chunks' = Append(audio_chunks, content)
    /\ UNCHANGED <<max_chars, orig, text, chunks, gaps, split_points, spc,
                   audio_data, output_file>>
    /\ UNCHANGED notSpeak

\* lines 63-67: the call for the next chunk raises
SynthesizeFails ==
    /\ spc = "synth"
    /\ Len(audio_chunks) < Len(chunks)
    /\ calls' = Append(calls, [input |-> ChunkToSynthesize(chunks, audio_chunks),
                               ok |-> FALSE, content |-> <<>>])
    /\ spc' = OnSynthesisError
    /\ UNCHANGED <<max_chars, orig, text, chunks, gaps, split_points,
                   audio_chunks, audio_data, output_file>>
    /\ UNCHANGED notSpeak

\* line 71 and line 153: speak returns the joined bytes to main
ReturnAudio ==
    /\ spc = "synth"
    /\ Len(audio_chunks) = Len(chunks)
    /\ audio_data' = Some(Join(audio_chunks))
    /\ spc' = "returned"
    /\ UNCHANGED <<max_chars, orig, text, chunks, gaps, split_points, calls,
                   audio_chunks, output_file>>
    /\ UNCHANGED notSpeak

\* lines 155-163: main writes audio_data to the output file
WriteOutput ==
    /\ spc = "returned"
    /\ output_file' = audio_data
    /\ spc' = "ended"
    /\ UNCHANGED <<max_chars, orig, text, chunks, gaps, split_points, calls,
                   audio_chunks, audio_data>>
    /\ UNCHANGED notSpeak

\* lines 177-178: main prints the error of speak and ends
PrintError ==
    /\ spc = "raised"
    /\ spc' = "failed"
    /\ UNCHANGED <<max_chars, orig, text, chunks, gaps, split_points, calls,
                   audio_chunks, audio_data, output_file>>
    /\ UNCHANGED notSpeak

NextChunk ==
    \/ FinalChunk
    \/ SplitChunk

NextSpeak ==
    \/ FinalChunk
    \/ SplitChunk
    \/ Synthesize
    \/ SynthesizeFails
    \/ ReturnAudio
    \/ WriteOutput
    \/ PrintError

-----------------------------------------------------------------------------
(* The specifications                                                      *)

IdleAuto ==
    /\ input = <<>>
    /\ shape = [n |-> 0, m |-> 0, k |-> 0]
    /\ max_chunks = None
    /\ frames = <<>>
    /\ silent_chunks = 0
    /\ has_speech = FALSE
    /\ total_chunks = 0
    /\ stream = "none"
    /\ apc = "idle"
    /\ why = "none"

IdleInter ==
    /\ state = READY
    /\ term = "cooked"
    /\ lpc = "unstarted"
    /\ ch = ""
    /\ lcurrent = READY
    /\ keys = <<>>
    /\ trace = <<READY>>
    /\ mpc = "idle"
    /\ polled = READY
    /\ istream = "none"
    /\ blocks_read = 0
    /\ current = READY
    /\ iframes = <<>>
    /\ result = None
    /\ restores = 0
    /\ seen = <<>>
    /\ iwhy = "none"

IdleSpeak ==
    /\ max_chars = 0
    /\ orig = <<>>
    /\ text = <<>>
    /\ chunks = <<>>
    /\ gaps = <<>>
    /\ split_points = <<>>
    /\ spc = "idle"
    /\ calls = <<>>
    /\ audio_chunks = <<>>
    /\ audio_data = None
    /\ output_file = None

InitAuto ==
    /\ \E n \in 0..MaxLead, m \in 0..MaxSpeech,
          k \in 0..(SilenceDurationBlocks + MaxTail),
          quiet \in {0, SILENCE_THRESHOLD - 1},
          loud \in {SILENCE_THRESHOLD, MAX_AMPLITUDE} :
            /\ input = BlockSequence(n, m, k, quiet, loud)
            /\ shape = [n |-> n, m |-> m, k |-> k]
    /\ \E d \in Durations : max_chunks = MaxChunksOf(d)
    /\ frames = <<>>
    /\ silent_chunks = 0
    /\ has_speech = FALSE
    /\ total_chunks = 0
    /\ stream = "none"
    /\ apc = "open"
    /\ why = "none"
    /\ IdleInter
    /\ IdleSpeak

InitInter ==
    /\ state = READY
    /\ term = "cooked"
    /\ lpc = "unstarted"
    /\ ch = ""
    /\ lcurrent = READY
    /\ keys = <<>>
    /\ trace = <<READY>>
    /\ mpc = "start"
    /\ polled = READY
    /\ istream = "none"
    /\ blocks_read = 0
    /\ current = READY
    /\ iframes = <<>>
    /\ result = None
    /\ restores = 0
    /\ seen = <<>>
    /\ iwhy = "none"
    /\ IdleAuto
    /\ IdleSpeak

\* talk.py lines 133-153: main strips the text it read, ends when nothing
\* is left, and hands the text to speak otherwise
StartSpeak(alphabet) ==
    /\ \E raw \in Texts(alphabet, MaxTextLen) : orig = Strip(raw)
    /\ max_chars \in 1..MaxLimit
    /\ text = orig
    /\ chunks = <<>>
    /\ gaps = <<>>
    /\ split_points = <<>>
    /\ spc = IF orig = <<>> THEN "notext" ELSE "split"
    /\ calls = <<>>
    /\ audio_chunks = <<>>
    /\ audio_data = None
    /\ output_file = None

InitChunk ==
    /\ StartSpeak(Alphabet)
    /\ IdleAuto
    /\ IdleInter

InitSpeak ==
    /\ StartSpeak(SpeakAlphabet)
    /\ IdleAuto
    /\ IdleInter

SpecAuto == InitAuto /\ [][NextAuto]_vars

SpecInter == InitInter /\ [][NextInter]_vars

\* both recorders: a run is a run of one of them
SpecRecorders ==
    (InitAuto \/ InitInter) /\ [][NextAuto \/ NextInter]_vars

\* the splitting loop of speak alone, over the full alphabet
SpecChunk == InitChunk /\ [][NextChunk]_vars

\* main and speak, splitting and synthesis
SpecSpeak == InitSpeak /\ [][NextSpeak]_vars

-----------------------------------------------------------------------------
(* Properties of AudioRecorder.record_until_silence (SpecAuto)             *)

\* C1: fed [N silent][M speech][K silent] with M >= 1 and K > D, with no
\* read failure and the cap not reached, record_until_silence returns the
\* first N + M + D + 1 blocks: the loop is still running after the D-th
\* silent block that follows the speech and stops on the (D+1)-th.
C1_StopsOnBlockAfterThreshold ==
    LET D == SilenceDurationBlocks
        expected == shape.n + shape.m + D + 1
    IN (shape.m >= 1 /\ shape.k > D) =>
          /\ apc = "loop" => total_chunks < expected
          /\ (apc = "returned" /\ why \notin {"error", "cap", "both"}) =>
                frames = SubSeq(input, 1, expected)

C1_Witness ==
    /\ apc = "returned"
    /\ why = "silence"
    /\ shape.n >= 1
    /\ shape.m >= 1
    /\ shape.k > SilenceDurationBlocks + 1
    /\ Len(frames) = shape.n + shape.m + SilenceDurationBlocks + 1

\* C2 as stated: for every cap maxChunks >= 0, an all-silent input of
\* length >= maxChunks is stopped by the cap only and the returned session
\* holds exactly maxChunks blocks.
C2_ExactlyMaxChunks ==
    (/\ apc = "returned"
     /\ shape.m = 0
     /\ max_chunks # None
     /\ Len(input) >= max_chunks[1]
     /\ why # "error") =>
        /\ why = "cap"
        /\ Len(frames) = max_chunks[1]

\* C2 as amended: an all-silent input never sets has_speech and never stops
\* through the silence rule; when the run returns without a read failure it
\* was stopped by the cap, with exactly maxChunks blocks for maxChunks >= 1
\* and exactly one block for maxChunks = 0 (the cap is tested only after a
\* block has been read and appended).
C2_CapStopsAllSilent ==
    shape.m = 0 =>
        /\ ~has_speech
        /\ why \notin {"silence", "both"}
        /\ (apc = "returned" /\ max_chunks # None /\ why # "error") =>
              /\ why = "cap"
              /\ frames = SubSeq(input, 1, IF max_chunks[1] = 0 THEN 1
                                           ELSE max_chunks[1])
              /\ Len(frames) = IF max_chunks[1] = 0 THEN 1 ELSE max_chunks[1]

C2_Witness ==
    /\ apc = "returned"
    /\ shape.m = 0
    /\ max_chunks # None
    /\ max_chunks[1] > SilenceDurationBlocks + 1
    /\ silent_chunks > SilenceDurationBlocks
    /\ why = "cap"
    /\ Len(frames) = max_chunks[1]

-----------------------------------------------------------------------------
(* Properties of InteractiveRecorder (SpecInter)                           *)

\* The transition table of the key-listener: state and key to next state.
TableNext(s, key) ==
    CASE key \in {"\n", "\r"} /\ s = READY -> RECORDING
      [] key \in {"\n", "\r"} /\ s = RECORDING -> PAUSED
      [] key \in {"\n", "\r"} /\ s = PAUSED -> RECORDING
      [] key = "q" -> STOPPED
      [] OTHER -> s

\* C3: every key the listener handles changes RecorderState as the
\* transition table says (Enter: Ready to Recording, Recording to Paused,
\* Paused to Recording; q: any state to Stopped; any other key: no change),
\* the state changes in no other step than the handling of a key or the
\* listener's fault handler, and the states after the handled keys follow
\* the table from Ready on; so [Enter, Enter, Enter, q] gives Ready,
\* Recording, Paused, Recording, Stopped.
C3_KeysFollowTable ==
    /\ [][/\ (lpc = "apply" /\ lpc' = "check") =>
                state' = TableNext(state, ch)
          /\ state' # state =>
                \/ lpc = "apply" /\ lpc' = "check"
                \/ lpc \in {"setcbreak", "read"} /\ lpc' = "exit"]_vars
    /\ [](/\ trace[1] = READY
          /\ \A i \in 1..(Len(trace) - 1) :
                trace[i + 1] = TableNext(trace[i], keys[i]))

C3_Witness ==
    /\ keys = <<"\n", "\n", "\n", "q">>
    /\ trace = <<READY, RECORDING, PAUSED, RECORDING, STOPPED>>
    /\ lpc = "exit"

C10_TerminalRestoredOnce ==
    /\ restores <= 1
    /\ restores > 0 => lpc \notin {"unstarted", "setcbreak"}
    /\ mpc = "ended" => (restores = 1 /\ term = "cooked")

C10_Witness ==
    /\ mpc = "ended"
    /\ result = None
    /\ lpc = "read"
    /\ restores = 1
    /\ term = "cooked"

-----------------------------------------------------------------------------
(* Properties of the splitting loop of Speaker.speak (SpecChunk)           *)

\* The chunks with the removed whitespace put back between them.
RECURSIVE Rejoin(_, _)
Rejoin(cs, gs) ==
    IF cs = <<>> THEN <<>>
    ELSE IF gs = <<>> THEN Head(cs) \o Rejoin(Tail(cs), <<>>)
    ELSE Head(cs) \o Head(gs) \o Rejoin(Tail(cs), Tail(gs))

\* C5: the chunks are consecutive pieces of the stripped input in order;
\* what lies between one chunk and the next is whitespace only, and the
\* chunks with that whitespace put back (followed, while the loop runs, by
\* the text still to be split) are the input exactly.
C5_RoundTrip ==
    /\ Len(gaps) <= Len(chunks)
    /\ \A i \in DOMAIN gaps : \A j \in DOMAIN gaps[i] :
            gaps[i][j] \in Whitespace
    /\ spc = "split" => Rejoin(chunks, gaps) \o text = orig
    /\ spc = "synth" => Rejoin(chunks, gaps) = orig

C5_Witness ==
    /\ spc = "synth"
    /\ Len(chunks) >= 3
    /\ \E i \in DOMAIN gaps : Len(gaps[i]) >= 2
    /\ \E i \in DOMAIN gaps : gaps[i] = <<>>
    /\ Rejoin(chunks, gaps) = orig

\* C6: every chunk of the splitting loop, the last one and every split one,
\* is at most maxLen characters long.
C6_ChunkWithinLimit ==
    \A i \in DOMAIN chunks : Len(chunks[i]) <= max_chars

C6_Witness ==
    /\ spc = "synth"
    /\ Len(chunks) >= 2
    /\ max_chars >= 2
    /\ \A i \in DOMAIN chunks : Len(chunks[i]) = max_chars
    /\ \A i \in DOMAIN orig : orig[i] = "x"

\* The split index by the priority rule, read off the window directly.
LastOf(w, c) ==
    CHOOSE i \in 0..(Len(w) - 1) :
        /\ w[i + 1] = c
        /\ \A j \in (i + 1)..(Len(w) - 1) : w[j + 1] # c

Occurs(w, c) == \E i \in DOMAIN w : w[i] = c

NoneOf(w, cs) == \A c \in cs : ~Occurs(w, c)

PrioritySplit(w, limit) ==
    CASE Occurs(w, ".") -> LastOf(w, ".")
      [] ~Occurs(w, ".") /\ Occurs(w, "!") -> LastOf(w, "!")
      [] NoneOf(w, {".", "!"}) /\ Occurs(w, "?") -> LastOf(w, "?")
      [] NoneOf(w, {".", "!", "?"}) /\ Occurs(w, "\n") -> LastOf(w, "\n")
      [] NoneOf(w, {".", "!", "?", "\n"}) /\ Occurs(w, " ") -> LastOf(w, " ")
      [] OTHER -> limit - 1

\* C7: every split of a text longer than maxLen is made at the last '.' of
\* the window text[0:maxLen] if it has one, else at the last '!', else the
\* last '?', else the last newline, else the last space, else at
\* maxLen - 1; and a forced split gives a chunk of exactly maxLen characters.
C7_SplitByPriority ==
    \A i \in DOMAIN split_points :
        LET e == split_points[i]
            w == SubSeq(e.text, 1, max_chars)
        IN /\ Len(e.text) > max_chars
           /\ e.split_point = PrioritySplit(w, max_chars)
           /\ NoneOf(w, {".", "!", "?", "\n", " "}) =>
                 Len(chunks[i]) = max_chars

C7_Witness ==
    \E i \in DOMAIN split_points :
        LET e == split_points[i]
            w == SubSeq(e.text, 1, max_chars)
        IN /\ w[e.split_point + 1] = "."
           /\ \E j \in (e.split_point + 2)..Len(w) : w[j] \in {"!", "?", "\n", " "}

-----------------------------------------------------------------------------
(* Properties of Speaker.speak and main of talk.py (SpecSpeak)             *)

\* The contents of the first n responses, in the order of the calls.
RECURSIVE ContentsOf(_, _)
ContentsOf(log, n) ==
    IF n = 0 THEN <<>> ELSE ContentsOf(log, n - 1) \o log[n].content

\* C8: the synthesis calls are made one per chunk in chunk order (call i
\* has chunk i as its input), and when all succeed speak returns the
\* contents of the responses joined in that order, nothing added, dropped
\* or reordered; main writes exactly these bytes.
C8_FragmentsInChunkOrder ==
    /\ Len(calls) <= Len(chunks)
    /\ \A i \in DOMAIN calls : calls[i].input = chunks[i]
    /\ audio_data # None =>
          /\ Len(calls) = Len(chunks)
          /\ Len(audio_chunks) = Len(chunks)
          /\ \A i \in DOMAIN calls : calls[i].ok
          /\ audio_data = Some(ContentsOf(calls, Len(calls)))
    /\ output_file # None => output_file = audio_data

C8_Witness ==
    /\ spc = "ended"
    /\ Len(chunks) = 3
    /\ calls[1].content = <<"A", "A">>
    /\ calls[2].content = <<"B">>
    /\ calls[3].content = <<"A", "A">>
    /\ output_file = Some(<<"A", "A", "B", "A", "A">>)

\* C9: a failed synthesis call is the last call of the run (it is not
\* retried and no later chunk is synthesized), speak returns no bytes and
\* main writes no output file.
C9_FailureAbortsAssembly ==
    \A i \in DOMAIN calls :
        ~calls[i].ok =>
            /\ i = Len(calls)
            /\ spc \in {"raised", "failed"}
            /\ audio_data = None
            /\ output_file = None

C9_Witness ==
    /\ spc = "failed"
    /\ Len(chunks) = 3
    /\ Len(calls) = 2
    /\ calls[1].ok
    /\ ~calls[2].ok
    /\ audio_chunks # <<>>
    /\ audio_data = None
    /\ output_file = None

-----------------------------------------------------------------------------
(* Further properties of InteractiveRecorder (SpecInter)                   *)

\* The blocks 1..n whose state read was Recording, in arrival order.
RECURSIVE RecordedOf(_, _)
RecordedOf(sn, n) ==
    IF n = 0 THEN <<>>
    ELSE IF sn[n] = RECORDING THEN Append(RecordedOf(sn, n - 1), n)
    ELSE RecordedOf(sn, n - 1)

\* C11: every pass of record's loop pulls exactly one block and reads the
\* state once for it, whatever the state; the frames, and the list record
\* returns from the loop, are the blocks whose state read was Recording, in
\* arrival order; a block read in Paused or Stopped is not among them.
C11_RetainsBlocksReadInRecording ==
    /\ Len(seen) = IF mpc = "get" THEN blocks_read - 1 ELSE blocks_read
    /\ iframes = RecordedOf(seen, Len(seen))
    /\ (result # None /\ istream # "none") => result = Some(iframes)

C11_Witness ==
    /\ seen = <<PAUSED, RECORDING, STOPPED>>
    /\ blocks_read = 3
    /\ result = Some(<<2>>)

-----------------------------------------------------------------------------
(* Properties of both recorders (SpecRecorders)                            *)

\* C12: after a failed device read, in record_until_silence and in
\* InteractiveRecorder.record, no further block is read or retained (no
\* retry), the loop has ended, the function returns instead of raising,
\* the stream is closed on return, and the list returned is the blocks
\* retained before the failing read, in arrival order.
C12_ReadFailureEndsLoop ==
    /\ [](why = "error" =>
            /\ apc \in {"stopped", "returned"}
            /\ frames = SubSeq(input, 1, total_chunks)
            /\ apc = "returned" => stream = "closed")
    /\ [](iwhy = "error" =>
            /\ mpc \in {"close", "returned", "exit", "ended"}
            /\ iframes = RecordedOf(seen, blocks_read)
            /\ mpc # "close" => (istream = "closed" /\ result = Some(iframes)))
    /\ [][/\ why = "error" =>
                (frames' = frames /\ total_chunks' = total_chunks)
          /\ iwhy = "error" =>
                (iframes' = iframes /\ blocks_read' = blocks_read)]_vars

C12_Witness ==
    /\ iwhy = "error"
    /\ seen = <<RECORDING, PAUSED>>
    /\ mpc = "ended"
    /\ istream = "closed"
    /\ result = Some(<<1>>)

-----------------------------------------------------------------------------
(* Further properties of record_until_silence (SpecAuto)                   *)

\* C13 as stated: the session of record_until_silence holds no silent block
\* that arrived before the first speech block.
C13_NoLeadingSilenceRetained ==
    \A i \in DOMAIN frames :
        IsSilent(frames[i]) => \E j \in 1..(i - 1) : ~IsSilent(frames[j])

\* C13 as amended: record_until_silence retains every block it reads,
\* silent blocks before the first speech block included: the session is at
\* every moment exactly the blocks read so far, in arrival order and
\* without gaps.
C13_EveryBlockRetained ==
    /\ total_chunks <= Len(input)
    /\ frames = SubSeq(input, 1, total_chunks)

C13_Witness ==
    /\ apc = "returned"
    /\ why = "silence"
    /\ shape.n = 2
    /\ shape.m >= 1
    /\ IsSilent(frames[1])
    /\ IsSilent(frames[2])
    /\ ~IsSilent(frames[3])

-----------------------------------------------------------------------------
(* The end of the two threads of InteractiveRecorder (SpecInter)           *)

-----------------------------------------------------------------------------
(* Further properties of both recorders (SpecRecorders)                    *)

\* C16: a failure to open the input stream never leaves a recorder as an
\* exception: record_until_silence is never left by a raise, and whenever
\* the main thread has left InteractiveRecorder.record, record has
\* returned a list.
C16_OpenFailureIsHandled ==
    /\ apc # "raised"
    /\ mpc \in {"exit", "ended"} => result # None

-----------------------------------------------------------------------------
(* Faults of the key-listener (SpecInter)                                  *)

\* The listener has ended through its fault handler (lines 166-167): it is
\* past its loop and the last key it handled did not set Stopped.
ListenerFaulted == lpc = "exit" /\ trace[Len(trace)] # STOPPED

\* C17: a fault of the listener, at setcbreak or at reading a character and
\* in whatever state, sets Stopped and ends the listener; from then on
\* record retains no further block, and when the main thread leaves record
\* it does so by record returning a list, which is empty when nothing had
\* been retained at the fault.
C17_FaultStopsRecording ==
    /\ [][(lpc \in {"setcbreak", "read"} /\ lpc' = "exit") =>
                state' = STOPPED]_vars
    /\ [](ListenerFaulted => state = STOPPED)
    /\ [][ListenerFaulted => iframes' = iframes]_vars
    /\ [][(ListenerFaulted /\ mpc # "exit" /\ mpc' = "exit") =>
                result' = Some(iframes)]_vars

-----------------------------------------------------------------------------
(* Further properties of the splitting loop of Speaker.speak (SpecChunk)   *)

\* C18: every chunk of the splitting loop is trimmed at both ends: no chunk
\* begins with a whitespace character and no chunk ends with one, also when
\* the split is made at a space or a newline.
C18_ChunksTrimmedBothEnds ==
    \A i \in DOMAIN chunks :
        /\ chunks[i] # <<>>
        /\ chunks[i][1] \notin Whitespace
        /\ chunks[i][Len(chunks[i])] \notin Whitespace

\* C18, as the code has it: no chunk begins with a whitespace character and
\* the final chunk does not end with one; a chunk cut off by a split ends
\* with its split character, which stays in the chunk, so it ends with
\* whitespace exactly when the split is made at a newline, at a space, or
\* by force on a whitespace character.
C18_ChunksTrimmedAtStart ==
    \A i \in DOMAIN chunks :
        /\ chunks[i] # <<>>
        /\ chunks[i][1] \notin Whitespace
        /\ IF i \in DOMAIN split_points
           THEN chunks[i][Len(chunks[i])] =
                    split_points[i].text[split_points[i].split_point + 1]
           ELSE chunks[i][Len(chunks[i])] \notin Whitespace

C18_Witness ==
    /\ spc = "synth"
    /\ Len(chunks) >= 2
    /\ \E i \in DOMAIN gaps :
            /\ chunks[i][Len(chunks[i])] = " "
            /\ gaps[i] # <<>>
    /\ \A i \in DOMAIN chunks : chunks[i][1] \notin Whitespace

\* C19: the splitting loop ends for every text and every limit of at least
\* one character: a pass that does not emit the final chunk emits one
\* non-empty chunk and leaves a strictly shorter text, also when the window
\* holds no split character or only one at index 0, so there are at most as
\* many passes as the text has characters; no chunk is ever empty.
C19_EveryPassShrinksText ==
    /\ [][(spc = "split" /\ ~Fits(text, max_chars) /\ chunks' # chunks) =>
            /\ Len(chunks') = Len(chunks) + 1
            /\ chunks'[Len(chunks')] # <<>>
            /\ Len(text') < Len(text)]_vars
    /\ [](\A i \in DOMAIN chunks : chunks[i] # <<>>)
    /\ [](Len(chunks) <= Len(orig))
    /\ [](spc = "split" => text # <<>>)

C19_Witness ==
    /\ spc = "synth"
    /\ max_chars >= 2
    /\ \E i \in DOMAIN split_points :
            /\ split_points[i].split_point = 0
            /\ chunks[i] = <<".">>
    /\ \E i \in DOMAIN split_points :
            /\ split_points[i].split_point = max_chars - 1
            /\ \A j \in DOMAIN chunks[i] : chunks[i][j] = "x"
    /\ \A i \in DOMAIN chunks : chunks[i] # <<>>

-----------------------------------------------------------------------------
(* The order of the recorder states (SpecInter)                            *)

\* C20: the state of an InteractiveRecorder only moves forward: once it is
\* not READY it is never READY again, once it is STOPPED it never changes,
\* every step that changes it is a step of the key-listener in which the
\* main thread does nothing (not even when a device read fails), and the
\* device is open only while the state is not READY.
C20_StateOnlyMovesForward ==
    /\ [][state # READY => state' # READY]_vars
    /\ [][state = STOPPED => state' = STOPPED]_vars
    /\ [][state' # state =>
            /\ lpc \in {"setcbreak", "read", "apply"}
            /\ lpc' # lpc
            /\ UNCHANGED <<mpc, istream, blocks_read, current, iframes,
                           result, iwhy>>]_vars
    /\ [](istream = "open" => state # READY)

C20_Witness ==
    /\ trace = <<READY, RECORDING, PAUSED, RECORDING, STOPPED>>
    /\ state = STOPPED
    /\ iwhy = "error"
    /\ istream = "closed"
    /\ iframes # <<>>

=============================================================================
